---- MODULE Spec2Model ----
(***************************************************************************)
(* CallPositionFrames (mariana-trench): the per-call-position taint        *)
(* domain, its lattice operations and the call-edge propagation.           *)
(*                                                                         *)
(* A CallPositionFrames object is the pair (position_, frames_).  frames_  *)
(* maps a kind to a group of frames; it is kept here as the flat set of    *)
(* the frames of all groups, with at most one frame per group key.         *)
(* A failed mt_assert ends the program: it is recorded in `aborted`.       *)
(***************************************************************************)
EXTENDS Integers, Sequences, FiniteSets, TLC

(* position_, frames_: the object; aborted: an mt_assert failed; expensive_assert: the
   build evaluates mt_expensive_assert; call: the arguments of propagate;
   last: the last operation, the object before it and its operands;
   hist: the operands joined so far; steps: the operations done *)
VARIABLES position_, frames_, aborted, expensive_assert, call, last, hist, steps

vars == <<position_, frames_, aborted, expensive_assert, call, last, hist, steps>>

(***************************************************************************)
(* Bounds of the model.                                                    *)
(***************************************************************************)
MaxDistance == 3
MaxFrames == 2
MaxHops == 3
MaxOps == 3

(* std::numeric_limits<int>::max() *)
IntMax == 2147483647

(* nullptr, for every pointer-typed field *)
Null == "null"

Kinds == {"K1", "K2"}
Positions == {"p1", "p2"}

(***************************************************************************)
(* Set domains (MethodSet, FieldSet, FeatureSet, LocalPositionSet, ...):   *)
(* join is union.  FeatureMayAlwaysSet: bottom, or a pair may/always with  *)
(* always \subseteq may; join unions may and intersects always.            *)
(***************************************************************************)
FeatureBottom == [bot |-> TRUE, may |-> {}, always |-> {}]

MakeAlways(fs) == [bot |-> FALSE, may |-> fs, always |-> fs]

FeatureJoin(a, b) ==
  IF a.bot THEN b
  ELSE IF b.bot THEN a
  ELSE [bot |-> FALSE, may |-> a.may \cup b.may, always |-> a.always \cap b.always]

FeatureMeet(a, b) ==
  IF a.bot \/ b.bot THEN FeatureBottom
  ELSE [bot |-> FALSE, may |-> a.may \cap b.may,
        always |-> (a.always \cup b.always) \cap (a.may \cap b.may)]

FeatureLeq(a, b) ==
  a.bot \/ (~b.bot /\ a.may \subseteq b.may /\ b.always \subseteq a.always)

(* FeatureMayAlwaysSet::add: union of both components *)
FeatureAdd(a, b) ==
  IF a.bot THEN b
  ELSE IF b.bot THEN a
  ELSE [bot |-> FALSE, may |-> a.may \cup b.may, always |-> a.always \cup b.always]

FeatureAddAlways(a, f) ==
  [bot |-> FALSE, may |-> a.may \cup {f}, always |-> a.always \cup {f}]

FeatureEmpty(a) == a.bot \/ a.may = {}

(***************************************************************************)
(* Frame.                                                                  *)
(***************************************************************************)
(* the constructor of Frame, its arguments in the order of the source *)
MakeFrame(kind, callee_port, callee, field_callee, call_position, distance, origins, field_origins, inferred_features, locally_inferred_features, user_features, via_type_of_ports, via_value_of_ports, local_positions, canonical_names) ==
  [kind |-> kind, callee_port |-> callee_port, callee |-> callee,
   field_callee |-> field_callee, call_position |-> call_position,
   distance |-> distance, origins |-> origins, field_origins |-> field_origins,
   inferred_features |-> inferred_features,
   locally_inferred_features |-> locally_inferred_features,
   user_features |-> user_features, via_type_of_ports |-> via_type_of_ports,
   via_value_of_ports |-> via_value_of_ports, local_positions |-> local_positions,
   canonical_names |-> canonical_names]

(* roots of access paths: <<kind of root, parameter position>> *)
Argument(i) == <<"Argument", i>>
Return == <<"Return", 0>>
Anchor == <<"Anchor", 0>>

Port(root) == [root |-> root, path |-> <<>>]

IsArgument(root) == root[1] = "Argument"

ParameterPosition(root) == root[2]

FrameBottom ==
  MakeFrame(Null, Port(<<"Leaf", 0>>), Null, Null, Null, 0, {}, {}, FeatureBottom,
            FeatureBottom, {}, {}, {}, {}, {})

FrameIsBottom(f) == f.kind = Null

(* Frame::features(): inferred and locally inferred features, with the user
   features as always-features *)
FrameFeatures(f) ==
  LET fs == FeatureAdd(f.inferred_features, f.locally_inferred_features)
  IN IF fs.bot THEN MakeAlways(f.user_features)
     ELSE [bot |-> FALSE, may |-> fs.may \cup f.user_features,
           always |-> fs.always \cup f.user_features]

(* a CRTEX producer declaration: a leaf frame on the Anchor port *)
IsCrtexProducerDeclaration(f) == f.callee = Null /\ f.callee_port.root = Anchor

(* the group key inside one group of frames: frames that agree on it are merged *)
GroupKey(f) ==
  <<f.kind, f.callee, f.callee_port, f.field_callee, f.call_position, f.canonical_names>>

FrameJoin(f, g) ==
  [f EXCEPT !.distance = IF f.distance <= g.distance THEN f.distance ELSE g.distance,
            !.origins = f.origins \cup g.origins,
            !.field_origins = f.field_origins \cup g.field_origins,
            !.inferred_features = FeatureJoin(f.inferred_features, g.inferred_features),
            !.locally_inferred_features =
               FeatureJoin(f.locally_inferred_features, g.locally_inferred_features),
            !.user_features = f.user_features \cup g.user_features,
            !.via_type_of_ports = f.via_type_of_ports \cup g.via_type_of_ports,
            !.via_value_of_ports = f.via_value_of_ports \cup g.via_value_of_ports,
            !.local_positions = f.local_positions \cup g.local_positions]

FrameMeet(f, g) ==
  [f EXCEPT !.distance = IF f.distance >= g.distance THEN f.distance ELSE g.distance,
            !.origins = f.origins \cap g.origins,
            !.field_origins = f.field_origins \cap g.field_origins,
            !.inferred_features = FeatureMeet(f.inferred_features, g.inferred_features),
            !.locally_inferred_features =
               FeatureMeet(f.locally_inferred_features, g.locally_inferred_features),
            !.user_features = f.user_features \cap g.user_features,
            !.via_type_of_ports = f.via_type_of_ports \cap g.via_type_of_ports,
            !.via_value_of_ports = f.via_value_of_ports \cap g.via_value_of_ports,
            !.local_positions = f.local_positions \cap g.local_positions]

FrameLeq(f, g) ==
  /\ GroupKey(f) = GroupKey(g)
  /\ f.distance >= g.distance
  /\ f.origins \subseteq g.origins
  /\ f.field_origins \subseteq g.field_origins
  /\ FeatureLeq(f.inferred_features, g.inferred_features)
  /\ FeatureLeq(f.locally_inferred_features, g.locally_inferred_features)
  /\ f.user_features \subseteq g.user_features
  /\ f.via_type_of_ports \subseteq g.via_type_of_ports
  /\ f.via_value_of_ports \subseteq g.via_value_of_ports
  /\ f.local_positions \subseteq g.local_positions

(***************************************************************************)
(* Groups of frames (the grouped-set domain), as flat sets.                *)
(***************************************************************************)
Partner(f, T) == CHOOSE g \in T : GroupKey(g) = GroupKey(f)

HasPartner(f, T) == \E g \in T : GroupKey(g) = GroupKey(f)

FramesAdd(S, f) ==
  IF HasPartner(f, S)
  THEN (S \ {Partner(f, S)}) \cup {FrameJoin(Partner(f, S), f)}
  ELSE S \cup {f}

FramesJoin(S, T) ==
  {IF HasPartner(f, T) THEN FrameJoin(f, Partner(f, T)) ELSE f : f \in S}
    \cup {g \in T : ~HasPartner(g, S)}

FramesMeet(S, T) ==
  {FrameMeet(f, Partner(f, T)) : f \in {h \in S : HasPartner(h, T)}}

FramesDifference(S, T) ==
  {f \in S : ~(HasPartner(f, T) /\ FrameLeq(f, Partner(f, T)))}

FramesLeq(S, T) == \A f \in S : HasPartner(f, T) /\ FrameLeq(f, Partner(f, T))

FramesEquals(S, T) == S = T

(***************************************************************************)
(* CallPositionFrames objects.  An operation yields [ok, obj]: ok is FALSE *)
(* when one of its mt_assert fails (the object is then the one at the      *)
(* failing assertion).                                                     *)
(***************************************************************************)
Obj(p, F) == [position_ |-> p, frames_ |-> F]

Bottom == Obj(Null, {})

IsBottom(o) == o.frames_ = {}

Ok(o) == [ok |-> TRUE, obj |-> o]

Abort(o) == [ok |-> FALSE, obj |-> o]

(* mt_assert(is_bottom() || other.is_bottom() || position_ == other.position()) *)
PositionAssert(a, b) == IsBottom(a) \/ IsBottom(b) \/ a.position_ = b.position_

AddPosition(o, frame) == IF o.position_ = Null THEN frame.call_position ELSE o.position_

Add(o, frame) ==
  IF o.position_ /= Null /\ o.position_ /= frame.call_position
  THEN Abort(o)
  ELSE Ok(Obj(AddPosition(o, frame), FramesAdd(o.frames_, frame)))

(* the result of leq/equals: "true", "false", or "abort" when the assertion fails *)
Leq(a, b) ==
  IF ~PositionAssert(a, b) THEN "abort"
  ELSE IF FramesLeq(a.frames_, b.frames_) THEN "true" ELSE "false"

Equals(a, b) ==
  IF ~PositionAssert(a, b) THEN "abort"
  ELSE IF FramesEquals(a.frames_, b.frames_) THEN "true" ELSE "false"

(* mt_expensive_assert: previous.leq(this) && other.leq(this), evaluated in
   the builds that enable expensive assertions *)
ExpensiveAssert(previous, other, this, expensive) ==
  ~expensive \/ (Leq(previous, this) = "true" /\ Leq(other, this) = "true")

JoinPosition(a, b) == a.position_

JoinWith(a, b, expensive) ==
  IF ~PositionAssert(a, b) THEN Abort(a)
  ELSE LET r == Obj(JoinPosition(a, b), FramesJoin(a.frames_, b.frames_))
       IN IF ExpensiveAssert(a, b, r, expensive) THEN Ok(r) ELSE Abort(r)

WidenWith(a, b, expensive) ==
  IF ~PositionAssert(a, b) THEN Abort(a)
  ELSE LET r == Obj(a.position_, FramesJoin(a.frames_, b.frames_))
       IN IF ExpensiveAssert(a, b, r, expensive) THEN Ok(r) ELSE Abort(r)

MeetWith(a, b) ==
  IF ~PositionAssert(a, b) THEN Abort(a)
  ELSE Ok(Obj(a.position_, FramesMeet(a.frames_, b.frames_)))

NarrowWith(a, b) ==
  IF ~PositionAssert(a, b) THEN Abort(a)
  ELSE Ok(Obj(a.position_, FramesMeet(a.frames_, b.frames_)))

DifferenceWith(a, b) ==
  IF ~PositionAssert(a, b) THEN Abort(a)
  ELSE Ok(Obj(a.position_, FramesDifference(a.frames_, b.frames_)))

(* the frame transformers the class passes to map *)
FrameAddInferredFeatures(f, features) ==
  [f EXCEPT !.inferred_features = FeatureAdd(f.inferred_features, features)]

FrameAddLocalPosition(f, position) ==
  [f EXCEPT !.local_positions = f.local_positions \cup {position}]

FrameSetLocalPositions(f, positions) == [f EXCEPT !.local_positions = positions]

ApplyTransform(f, t) ==
  CASE t.name = "add_inferred_features" -> FrameAddInferredFeatures(f, t.features)
    [] t.name = "add_local_position" -> FrameAddLocalPosition(f, t.position)
    [] t.name = "set_local_positions" -> FrameSetLocalPositions(f, t.positions)

Map(o, t) == Obj(o.position_, {ApplyTransform(f, t) : f \in o.frames_})

AddInferredFeatures(o, features) ==
  IF FeatureEmpty(features) THEN o
  ELSE Map(o, [name |-> "add_inferred_features", features |-> features])

AddLocalPosition(o, position) ==
  Map(o, [name |-> "add_local_position", position |-> position])

SetLocalPositions(o, positions) ==
  Map(o, [name |-> "set_local_positions", positions |-> positions])

(* the public operations built on map, chosen by the record t *)
MapOperation(o, t) ==
  CASE t.name = "add_inferred_features" -> AddInferredFeatures(o, t.features)
    [] t.name = "add_local_position" -> AddLocalPosition(o, t.position)
    [] t.name = "set_local_positions" -> SetLocalPositions(o, t.positions)

(***************************************************************************)
(* Propagation.  The arguments of propagate are the record a: callee,      *)
(* callee_port, call_position, maximum_source_sink_distance,               *)
(* source_register_types, source_constant_arguments.  Containers are       *)
(* iterated in the order of `order`, a sequence of the frames of the       *)
(* object (an unordered container's order is any order).                   *)
(***************************************************************************)
ViaTypeOfFeature(type) ==
  CASE type = "T1" -> "via-type-of:T1"
    [] type = "T2" -> "via-type-of:T2"
    [] OTHER -> "via-type-of:unknown"

ViaValueOfFeature(value) ==
  CASE value = "c1" -> "via-value-of:c1"
    [] value = "c2" -> "via-value-of:c2"
    [] OTHER -> "via-value-of:unknown"

(* ValidPort without the is_argument() test *)
ValidPortAnyRoot(port, size) == ParameterPosition(port) < size

(* the port is materialized: an argument whose index is inside the vector *)
ValidPort(port, size) == IsArgument(port) /\ ParameterPosition(port) < size

RECURSIVE MaterializeViaTypeOfPorts(_, _, _)
MaterializeViaTypeOfPorts(ports, source_register_types, acc) ==
  IF ports = {} THEN acc
  ELSE LET port == CHOOSE p \in ports : TRUE
           rest == ports \ {port}
       IN IF ~ValidPort(port, Len(source_register_types))
          THEN MaterializeViaTypeOfPorts(rest, source_register_types, acc)
          ELSE LET feature ==
                     ViaTypeOfFeature(source_register_types[ParameterPosition(port) + 1])
               IN MaterializeViaTypeOfPorts(rest, source_register_types,
                    [via_type_of_features_added |->
                        Append(acc.via_type_of_features_added, feature),
                     inferred_features |->
                        FeatureAddAlways(acc.inferred_features, feature)])

RECURSIVE MaterializeViaValueOfPorts(_, _, _)
MaterializeViaValueOfPorts(ports, source_constant_arguments, inferred_features) ==
  IF ports = {} THEN inferred_features
  ELSE LET port == CHOOSE p \in ports : TRUE
           rest == ports \ {port}
       IN IF ~ValidPort(port, Len(source_constant_arguments))
          THEN MaterializeViaValueOfPorts(rest, source_constant_arguments,
                                          inferred_features)
          ELSE MaterializeViaValueOfPorts(rest, source_constant_arguments,
                 FeatureAddAlways(inferred_features,
                   ViaValueOfFeature(
                     source_constant_arguments[ParameterPosition(port) + 1])))

Min(x, y) == IF x <= y THEN x ELSE y

(* the locals of propagate_frames before its loop *)
InitialAccumulator ==
  [distance |-> IntMax, origins |-> {}, field_origins |-> {},
   inferred_features |-> FeatureBottom, via_type_of_features_added |-> <<>>]

(* Survives with the cap test off by one: > for >= *)
SurvivesAtCap(frame, a) == frame.distance <= a.maximum_source_sink_distance

(* a frame at or above the cap is skipped by the loop *)
Survives(frame, a) == frame.distance < a.maximum_source_sink_distance

(* one iteration of the loop of propagate_frames *)
PropagateOne(acc, frame, a) ==
  IF ~Survives(frame, a) THEN acc
  ELSE LET joined == FeatureJoin(acc.inferred_features, FrameFeatures(frame))
           vt == MaterializeViaTypeOfPorts(frame.via_type_of_ports,
                   a.source_register_types,
                   [via_type_of_features_added |-> acc.via_type_of_features_added,
                    inferred_features |-> joined])
           vv == MaterializeViaValueOfPorts(frame.via_value_of_ports,
                   a.source_constant_arguments, vt.inferred_features)
       IN [distance |-> Min(acc.distance, frame.distance + 1),
           origins |-> acc.origins \cup frame.origins,
           field_origins |-> acc.field_origins \cup frame.field_origins,
           inferred_features |-> vv,
           via_type_of_features_added |-> vt.via_type_of_features_added]

RECURSIVE PropagateLoop(_, _, _)
PropagateLoop(acc, frames, a) ==
  IF frames = <<>> THEN acc
  ELSE PropagateLoop(PropagateOne(acc, Head(frames), a), Tail(frames), a)

(* PropagatedFrame with callee and field_callee swapped in the constructor call *)
PropagatedFrameSwapped(kind, acc, a) ==
  MakeFrame(kind, a.callee_port, Null, a.callee, a.call_position, acc.distance,
            acc.origins, acc.field_origins, acc.inferred_features, FeatureBottom,
            {}, {}, {}, {}, {})

(* the frame propagate_frames returns from the locals its loop leaves *)
PropagatedFrame(kind, acc, a) ==
  MakeFrame(kind, a.callee_port, a.callee, Null, a.call_position, acc.distance,
            acc.origins, acc.field_origins, acc.inferred_features, FeatureBottom,
            {}, {}, {}, {}, {})

(* propagate_frames: the frame, and the via_type_of_features_added it fills *)
PropagateFrames(a, frames) ==
  IF Len(frames) = 0
  THEN [frame |-> FrameBottom, via_type_of_features_added |-> <<>>]
  ELSE LET acc == PropagateLoop(InitialAccumulator, frames, a)
       IN [frame |-> PropagatedFrame(Head(frames).kind, acc, a),
           via_type_of_features_added |-> acc.via_type_of_features_added]

(* canonical names: templates <<"template", t>>, instantiated <<t, value>> *)
LeafTemplate == <<"template", "leaf">>
ViaTypeOfTemplate == <<"template", "via_type_of">>

(* CanonicalName::instantiate: the set holding the instantiated name, empty
   when the instantiation fails *)
Instantiate(name, callee, via_type_ofs) ==
  CASE name = LeafTemplate -> {<<"leaf", callee>>}
    [] name = ViaTypeOfTemplate ->
         IF Len(via_type_ofs) = 0 THEN {} ELSE {<<"via_type_of", via_type_ofs[1]>>}
    [] OTHER -> {}

CanonicalizeForMethod(port, callee) == [root |-> Anchor, path |-> port.root]

InstantiatedNames(frame, propagated) ==
  UNION {Instantiate(name, propagated.frame.callee,
                     propagated.via_type_of_features_added) :
           name \in frame.canonical_names}

(* the frame propagate_crtex_frames adds for one input frame *)
CrtexFrame(kind, propagated, instantiated_names) ==
  LET p == propagated.frame
  IN MakeFrame(kind, CanonicalizeForMethod(p.callee_port, p.callee), p.callee,
               p.field_callee, p.call_position, 0, p.origins, p.field_origins,
               p.inferred_features, p.locally_inferred_features, p.user_features,
               p.via_type_of_ports, p.via_value_of_ports, p.local_positions,
               instantiated_names)

(* CrtexKept without the test of the instantiated names *)
CrtexKeptAlways(instantiated_names) == TRUE

(* the frame is kept: at least one canonical name instantiated *)
CrtexKept(instantiated_names) == instantiated_names /= {}

(* the arguments propagate_crtex_frames hands to propagate_frames: no
   constant arguments *)
CrtexArguments(a) == [a EXCEPT !.source_constant_arguments = <<>>]

(* one iteration of the loop of propagate_crtex_frames; res is [ok, obj] *)
PropagateCrtexOne(res, frame, a) ==
  IF ~res.ok THEN res
  ELSE LET propagated == PropagateFrames(CrtexArguments(a), <<frame>>)
           names == InstantiatedNames(frame, propagated)
       IN IF FrameIsBottom(propagated.frame) THEN res
          ELSE IF frame.canonical_names = {} THEN res
          ELSE IF CrtexKept(names)
          THEN Add(res.obj, CrtexFrame(frame.kind, propagated, names))
          ELSE res

RECURSIVE PropagateCrtexLoop(_, _, _)
PropagateCrtexLoop(res, frames, a) ==
  IF frames = <<>> THEN res
  ELSE PropagateCrtexLoop(PropagateCrtexOne(res, Head(frames), a), Tail(frames), a)

PropagateCrtexFrames(a, frames) ==
  IF Len(frames) = 0 THEN Ok(Bottom) ELSE PropagateCrtexLoop(Ok(Bottom), frames, a)

(* the kinds of the frames of order, in the order of their first frame *)
RECURSIVE KindOrder(_)
KindOrder(order) ==
  IF order = <<>> THEN <<>>
  ELSE <<Head(order).kind>>
         \o SelectSeq(KindOrder(Tail(order)), LAMBDA k : k /= Head(order).kind)

CrtexFramesOf(order, kind) ==
  SelectSeq(order, LAMBDA f : f.kind = kind /\ IsCrtexProducerDeclaration(f))

NonCrtexFramesOf(order, kind) ==
  SelectSeq(order, LAMBDA f : f.kind = kind /\ ~IsCrtexProducerDeclaration(f))

(* one iteration of the loop of propagate over the kinds; res is [ok, obj] *)
PropagateKind(res, kind, order, a, expensive) ==
  IF ~res.ok THEN res
  ELSE LET crtex == PropagateCrtexFrames(a, CrtexFramesOf(order, kind))
           joined == IF crtex.ok THEN JoinWith(res.obj, crtex.obj, expensive)
                     ELSE Abort(res.obj)
           non_crtex_frame == PropagateFrames(a, NonCrtexFramesOf(order, kind)).frame
       IN IF ~joined.ok THEN joined
          ELSE IF ~FrameIsBottom(non_crtex_frame)
          THEN Add(joined.obj, non_crtex_frame)
          ELSE joined

RECURSIVE PropagateKinds(_, _, _, _, _)
PropagateKinds(res, kinds, order, a, expensive) ==
  IF kinds = <<>> THEN res
  ELSE PropagateKinds(PropagateKind(res, Head(kinds), order, a, expensive),
                      Tail(kinds), order, a, expensive)

Propagate(o, a, order, expensive) ==
  IF IsBottom(o) THEN Ok(Bottom)
  ELSE PropagateKinds(Ok(Bottom), KindOrder(order), order, a, expensive)

(* the orders in which the frames of a set can be iterated *)
Orders(S) ==
  {s \in [1..Cardinality(S) -> S] : \A f \in S : \E i \in 1..Cardinality(S) : s[i] = f}

(***************************************************************************)
(* The lattice machine: one object, starting at bottom, under the public   *)
(* operations, with operands built by the initializer-list constructor.    *)
(***************************************************************************)
This == Obj(position_, frames_)

CallArgs(call_position, types) ==
  [callee |-> "m1", callee_port |-> Port(Argument(0)),
   call_position |-> call_position,
   maximum_source_sink_distance |-> MaxDistance - 1,
   source_register_types |-> types, source_constant_arguments |-> <<"c1">>]

(* CallPositionFrames(std::initializer_list<Frame>) *)
RECURSIVE ConstructLoop(_, _)
ConstructLoop(res, frames) ==
  IF frames = <<>> \/ ~res.ok THEN res
  ELSE ConstructLoop(Add(res.obj, Head(frames)), Tail(frames))

Construct(frames) == ConstructLoop(Ok(Bottom), frames)

LatticeFrame(kind, position, distance) ==
  MakeFrame(kind, Port(Argument(0)), "m0", Null, position, distance,
            IF distance = 0 THEN {"o0"} ELSE {"o1"}, {},
            IF distance = 0 THEN MakeAlways({"f1"}) ELSE FeatureBottom,
            FeatureBottom, {}, {}, {}, {}, {})

LatticeFrames ==
  {LatticeFrame(k, p, d) : k \in Kinds, p \in Positions, d \in {0, 1}}

Operands == {Bottom} \cup {Construct(<<f>>).obj : f \in LatticeFrames}

Transforms ==
  {[name |-> "add_inferred_features", features |-> MakeAlways({"f2"})],
   [name |-> "add_local_position", position |-> "l1"],
   [name |-> "set_local_positions", positions |-> {}]}

Record(op, other, frame, order) ==
  [op |-> op, prev |-> This, other |-> other, frame |-> frame, order |-> order]

(* the object becomes the result res of an operation *)
Becomes(res) ==
  /\ position_' = res.obj.position_
  /\ frames_' = res.obj.frames_
  /\ aborted' = ~res.ok

Init ==
  /\ position_ = Null
  /\ frames_ = {}
  /\ aborted = FALSE
  /\ expensive_assert \in BOOLEAN
  /\ call \in {CallArgs(p, <<"T1">>) : p \in Positions}
  /\ last = [op |-> "init", prev |-> Bottom, other |-> Bottom,
             frame |-> FrameBottom, order |-> <<>>]
  /\ hist = <<>>
  /\ steps = 0

Running == ~aborted /\ steps < MaxOps

AddStep ==
  /\ Running
  /\ \E frame \in LatticeFrames :
       /\ Becomes(Add(This, frame))
       /\ last' = Record("add", Bottom, frame, <<>>)
  /\ steps' = steps + 1
  /\ UNCHANGED <<expensive_assert, call, hist>>

JoinWithStep ==
  /\ Running
  /\ \E other \in Operands :
       /\ Becomes(JoinWith(This, other, expensive_assert))
       /\ last' = Record("join_with", other, FrameBottom, <<>>)
       /\ hist' = Append(hist, other)
  /\ steps' = steps + 1
  /\ UNCHANGED <<expensive_assert, call>>

WidenWithStep ==
  /\ Running
  /\ \E other \in Operands :
       /\ Becomes(WidenWith(This, other, expensive_assert))
       /\ last' = Record("widen_with", other, FrameBottom, <<>>)
  /\ steps' = steps + 1
  /\ UNCHANGED <<expensive_assert, call, hist>>

MeetWithStep ==
  /\ Running
  /\ \E other \in Operands :
       /\ Becomes(MeetWith(This, other))
       /\ last' = Record("meet_with", other, FrameBottom, <<>>)
  /\ steps' = steps + 1
  /\ UNCHANGED <<expensive_assert, call, hist>>

NarrowWithStep ==
  /\ Running
  /\ \E other \in Operands :
       /\ Becomes(NarrowWith(This, other))
       /\ last' = Record("narrow_with", other, FrameBottom, <<>>)
  /\ steps' = steps + 1
  /\ UNCHANGED <<expensive_assert, call, hist>>

DifferenceWithStep ==
  /\ Running
  /\ \E other \in Operands :
       /\ Becomes(DifferenceWith(This, other))
       /\ last' = Record("difference_with", other, FrameBottom, <<>>)
  /\ steps' = steps + 1
  /\ UNCHANGED <<expensive_assert, call, hist>>

MapStep ==
  /\ Running
  /\ \E t \in Transforms :
       /\ Becomes(Ok(MapOperation(This, t)))
       /\ last' = Record("map", Bottom, FrameBottom, <<>>)
  /\ steps' = steps + 1
  /\ UNCHANGED <<expensive_assert, call, hist>>

(* the object is replaced by its propagation across the call edge `call` *)
PropagateStep ==
  /\ Running
  /\ \E order \in Orders(frames_) :
       /\ Becomes(Propagate(This, call, order, expensive_assert))
       /\ last' = Record("propagate", Bottom, FrameBottom, order)
  /\ steps' = steps + 1
  /\ UNCHANGED <<expensive_assert, call, hist>>

Next ==
  \/ AddStep
  \/ JoinWithStep
  \/ WidenWithStep
  \/ MeetWithStep
  \/ NarrowWithStep
  \/ DifferenceWithStep
  \/ MapStep
  \/ PropagateStep

Spec == Init /\ [][Next]_vars

(***************************************************************************)
(* The propagation machine: an object built by the initializer-list        *)
(* constructor is propagated along a chain of call edges with the same     *)
(* arguments `call`.  hist holds the object the chain starts from.         *)
(***************************************************************************)
RegisterTypeLists == {<<>>, <<"T1">>, <<"T1", "T2">>}

OrdinaryFrameA(kind, distance) ==
  MakeFrame(kind, Port(Argument(0)), "m0", Null, "p1", distance, {"oA"}, {},
            MakeAlways({"f1"}), FeatureBottom, {"u1"},
            {Argument(0), Argument(1)}, {Argument(0), Argument(1)}, {"l1"}, {})

OrdinaryFrameB(kind, distance) ==
  MakeFrame(kind, Port(Return), "m0", Null, "p1", distance, {"oB"}, {"fB"},
            FeatureBottom, MakeAlways({"f2"}), {}, {Return}, {}, {}, {})

CrtexInputFrame(kind, distance, names) ==
  MakeFrame(kind, Port(Anchor), Null, Null, "p1", distance, {"oC"}, {},
            FeatureBottom, FeatureBottom, {"u2"}, {Argument(0)}, {}, {}, names)

TemplateSets == {{}, {ViaTypeOfTemplate}, {LeafTemplate, ViaTypeOfTemplate}}

PropFrames ==
  {OrdinaryFrameA(k, d) : k \in Kinds, d \in 0..MaxDistance}
    \cup {OrdinaryFrameB("K1", d) : d \in 0..MaxDistance}
    \cup {CrtexInputFrame("K1", d, n) : d \in {0, MaxDistance}, n \in TemplateSets}
    \cup {CrtexInputFrame("K2", 0, {LeafTemplate, ViaTypeOfTemplate})}

(* the initializer lists of at most MaxFrames frames *)
FrameLists == UNION {[1..n -> PropFrames] : n \in 1..MaxFrames}

InitPropagate ==
  /\ \E frames \in FrameLists :
       /\ Construct(frames).ok
       /\ position_ = Construct(frames).obj.position_
       /\ frames_ = Construct(frames).obj.frames_
  /\ aborted = FALSE
  /\ expensive_assert \in BOOLEAN
  /\ call \in {CallArgs(p, t) : p \in {"p2", Null}, t \in RegisterTypeLists}
  /\ last = [op |-> "init", prev |-> Bottom, other |-> Bottom,
             frame |-> FrameBottom, order |-> <<>>]
  /\ hist = <<This>>
  /\ steps = 0

HopStep ==
  /\ ~aborted
  /\ steps < MaxHops
  /\ \E order \in Orders(frames_) :
       /\ Becomes(Propagate(This, call, order, expensive_assert))
       /\ last' = Record("propagate", Bottom, FrameBottom, order)
  /\ steps' = steps + 1
  /\ UNCHANGED <<expensive_assert, call, hist>>

NextPropagate == HopStep

SpecPropagate == InitPropagate /\ [][NextPropagate]_vars

(***************************************************************************)
(* Properties of propagate, stated on the state after a propagate step:    *)
(* the input is the object before the step, the output the object after.   *)
(***************************************************************************)
Cap == call.maximum_source_sink_distance

PropagateReturned == last.op = "propagate" /\ ~aborted

Input == last.prev.frames_

OrdinaryInputs(kind) ==
  {f \in Input : f.kind = kind /\ ~IsCrtexProducerDeclaration(f)}

CrtexInputs(kind) == {f \in Input : f.kind = kind /\ IsCrtexProducerDeclaration(f)}

SurvivingInputs(kind) == {f \in OrdinaryInputs(kind) : f.distance < Cap}

(* the frames of the output that carry no canonical name: the ordinary path
   produces them, the CRTEX path only frames with at least one name *)
OrdinaryOutputs(kind) == {g \in frames_ : g.kind = kind /\ g.canonical_names = {}}

MinDistance(S) ==
  CHOOSE d \in {f.distance : f \in S} : \A e \in {f.distance : f \in S} : d <= e

(* C1: when every ordinary input frame of a kind is at or above the cap, the
   output holds no ordinary frame of that kind; an ordinary frame at distance
   cap - 1 that is the only contributor yields a frame at distance cap. *)
C1_CapExcludesFrames ==
  PropagateReturned =>
    \A kind \in Kinds :
      /\ (\A f \in OrdinaryInputs(kind) : f.distance >= Cap)
           => OrdinaryOutputs(kind) = {}
      /\ (\E f \in OrdinaryInputs(kind) :
            OrdinaryInputs(kind) = {f} /\ f.distance = Cap - 1)
           => \E g \in OrdinaryOutputs(kind) : g.distance = Cap

(* C2: for every kind with a surviving ordinary input frame, the output holds
   exactly one ordinary frame of the kind, at distance 1 + the least distance
   of the survivors, with the union of the survivors' origins and field
   origins; a propagate of ordinary frames alone fails no assertion. *)
C2_OrdinaryMerge ==
  last.op = "propagate" =>
    /\ (\A f \in Input : ~IsCrtexProducerDeclaration(f)) => ~aborted
    /\ ~aborted =>
         \A kind \in Kinds :
           SurvivingInputs(kind) /= {} =>
             \E g \in OrdinaryOutputs(kind) :
               /\ OrdinaryOutputs(kind) = {g}
               /\ g.distance = 1 + MinDistance(SurvivingInputs(kind))
               /\ g.origins = UNION {f.origins : f \in SurvivingInputs(kind)}
               /\ g.field_origins =
                    UNION {f.field_origins : f \in SurvivingInputs(kind)}

C2_Witness ==
  /\ PropagateReturned
  /\ \E kind \in Kinds :
       \E f1, f2 \in SurvivingInputs(kind) :
         /\ f1.distance < f2.distance
         /\ f1.origins /= f2.origins
         /\ \E g \in OrdinaryOutputs(kind) :
              g.distance = f1.distance + 1 /\ g.origins = f1.origins \cup f2.origins

(* the canonical names of a CRTEX input frame that instantiate successfully
   against the callee of the call *)
SuccessfulNames(f) == InstantiatedNames(f, PropagateFrames(CrtexArguments(call), <<f>>))

CanonicalPort == CanonicalizeForMethod(call.callee_port, call.callee)

(* the output frames of the CRTEX path are on the canonicalized port *)
CrtexPathOutputs(kind) ==
  {g \in frames_ : g.kind = kind /\ g.callee_port = CanonicalPort}

OrdinaryPathOutputs(kind) ==
  {g \in frames_ : g.kind = kind /\ g.callee_port /= CanonicalPort}

DroppedInputs ==
  {f \in Input : IsCrtexProducerDeclaration(f) /\ SuccessfulNames(f) = {}}

(* the outcome of the same propagate, its kinds iterated in the same order,
   without the dropped CRTEX frames *)
WithoutDropped ==
  IF Input \ DroppedInputs = {} THEN Ok(Bottom)
  ELSE PropagateKinds(Ok(Bottom), KindOrder(last.order),
                      SelectSeq(last.order, LAMBDA f : f \notin DroppedInputs),
                      call, expensive_assert)

(* C4: every frame the CRTEX path puts in the output comes from a CRTEX
   input frame with canonical names of which at least one instantiates; a
   CRTEX frame without names, or whose names all fail, leaves no frame, and
   the outcome of the propagate is the one of the same call without it. *)
C4_CrtexDropRule ==
  last.op = "propagate" =>
    /\ ~aborted =>
         \A kind \in Kinds :
           \A g \in CrtexPathOutputs(kind) :
             \E f \in CrtexInputs(kind) :
               /\ f.canonical_names /= {}
               /\ SuccessfulNames(f) /= {}
               /\ g.canonical_names = SuccessfulNames(f)
    /\ aborted = ~WithoutDropped.ok
    /\ This = WithoutDropped.obj

C4_Witness ==
  /\ PropagateReturned
  /\ \E kind \in Kinds :
       /\ \E f \in CrtexInputs(kind) :
            f.canonical_names /= {} /\ SuccessfulNames(f) = {}
       /\ CrtexPathOutputs(kind) = {}
       /\ OrdinaryPathOutputs(kind) /= {}

(* C5: a CRTEX input frame with at least one instantiating canonical name
   appears in the output of propagate at distance 0, with exactly the names
   that instantiated. *)
C5_CrtexResult ==
  last.op = "propagate" =>
    \A kind \in Kinds :
      \A f \in CrtexInputs(kind) :
        (f.canonical_names /= {} /\ SuccessfulNames(f) /= {}) =>
          /\ ~aborted
          /\ \E g \in frames_ :
               /\ g.kind = kind
               /\ g.distance = 0
               /\ g.canonical_names = SuccessfulNames(f)

(* the features the valid via-type-of and via-value-of ports of f stand for *)
ViaTypeOfFeatures(f) ==
  {ViaTypeOfFeature(call.source_register_types[ParameterPosition(port) + 1]) :
     port \in {q \in f.via_type_of_ports :
                 IsArgument(q)
                 /\ ParameterPosition(q) < Len(call.source_register_types)}}

ViaValueOfFeatures(f) ==
  {ViaValueOfFeature(call.source_constant_arguments[ParameterPosition(port) + 1]) :
     port \in {q \in f.via_value_of_ports :
                 IsArgument(q)
                 /\ ParameterPosition(q) < Len(call.source_constant_arguments)}}

SurvivorsInOrder(kind) == SelectSeq(last.order, LAMBDA f : f \in SurvivingInputs(kind))

LastSurvivor(kind) == SurvivorsInOrder(kind)[Len(SurvivorsInOrder(kind))]

(* C6 (as amended): the output frame's inferred features hold, as may-features,
   exactly the survivors' features and the features of their valid
   via-type-of and via-value-of ports, so a port that is no argument or is out
   of bounds adds nothing and stops nothing; the features of the valid
   via-type-of ports of the survivor processed last are always-features of
   the output; a propagate of ordinary frames alone fails no assertion. *)
C6_ViaTypeOfMaterialized ==
  last.op = "propagate" =>
    /\ (\A f \in Input : ~IsCrtexProducerDeclaration(f)) => ~aborted
    /\ ~aborted =>
         \A kind \in Kinds :
           SurvivingInputs(kind) /= {} =>
             \E g \in OrdinaryPathOutputs(kind) :
               /\ g.inferred_features.may =
                    UNION {FrameFeatures(f).may \cup ViaTypeOfFeatures(f)
                             \cup ViaValueOfFeatures(f) : f \in SurvivingInputs(kind)}
               /\ ViaTypeOfFeatures(LastSurvivor(kind))
                    \subseteq g.inferred_features.always

C6_Witness ==
  /\ PropagateReturned
  /\ \E kind \in Kinds :
       \E f \in SurvivingInputs(kind) :
         /\ \E port \in f.via_type_of_ports :
              ~ValidPort(port, Len(call.source_register_types))
         /\ ViaTypeOfFeatures(f) /= {}
         /\ f /= LastSurvivor(kind)
         /\ \E g \in OrdinaryPathOutputs(kind) :
              /\ ViaTypeOfFeatures(f) \subseteq g.inferred_features.may
              /\ ViaTypeOfFeatures(f) \cap g.inferred_features.always = {}

(* C6 as claimed: every valid via-type-of port of every surviving frame leaves
   an always-feature in the output frame's inferred features. *)
C6_AlwaysFeatureInOutput ==
  PropagateReturned =>
    \A kind \in Kinds :
      \A f \in SurvivingInputs(kind) :
        \E g \in OrdinaryPathOutputs(kind) :
          ViaTypeOfFeatures(f) \subseteq g.inferred_features.always

ChainStart == hist[1]

(* C9: a chain that starts from a single ordinary frame at distance d below
   the cap holds one frame at distance d + k after k hops while d + k is at
   most the cap, is bottom from hop cap - d + 1 on, and never holds a frame
   farther than the cap. *)
C9_BoundedDepth ==
  (\E f \in ChainStart.frames_ :
     /\ ChainStart.frames_ = {f}
     /\ ~IsCrtexProducerDeclaration(f)
     /\ f.distance < Cap) =>
    LET d == (CHOOSE f \in ChainStart.frames_ : TRUE).distance
    IN /\ ~aborted
       /\ d + steps <= Cap =>
            \E g \in frames_ : frames_ = {g} /\ g.distance = d + steps
       /\ steps >= Cap - d + 1 => frames_ = {}
       /\ \A g \in frames_ : g.distance <= Cap

(* C10: a frame the ordinary path produces carries the callee, callee port
   and call position of the call, no field callee, and empty locally inferred
   features, user features, via ports, local positions and canonical names;
   the survivors' features, user features included, are in its inferred
   features. *)
C10_OrdinaryFrameFields ==
  PropagateReturned =>
    \A kind \in Kinds :
      \A g \in OrdinaryPathOutputs(kind) :
        /\ g.callee = call.callee
        /\ g.callee_port = call.callee_port
        /\ g.call_position = call.call_position
        /\ g.field_callee = Null
        /\ g.locally_inferred_features = FeatureBottom
        /\ g.user_features = {}
        /\ g.via_type_of_ports = {}
        /\ g.via_value_of_ports = {}
        /\ g.local_positions = {}
        /\ g.canonical_names = {}
        /\ \A f \in SurvivingInputs(kind) :
             FrameFeatures(f).may \cup f.user_features
               \subseteq g.inferred_features.may

C10_Witness ==
  /\ PropagateReturned
  /\ \E kind \in Kinds :
       \E f \in SurvivingInputs(kind) :
         /\ f.user_features /= {}
         /\ f.local_positions /= {}
         /\ f.via_type_of_ports /= {}
         /\ \E g \in OrdinaryPathOutputs(kind) :
              /\ f.user_features \subseteq g.inferred_features.may
              /\ g.user_features = {}
              /\ g.local_positions = {}

(***************************************************************************)
(* Properties of the lattice operations, stated on the lattice machine.    *)
(***************************************************************************)
(* C3: after any sequence of operations that fails no assertion, all the
   frames of the object carry the same call position. *)
C3_SinglePosition ==
  ~aborted => \A f, g \in frames_ : f.call_position = g.call_position

(* C7: after join_with or widen_with of position-compatible objects, the
   object before and the operand are both leq the result, and no assertion
   of the operation fails. *)
C7_JoinUpperBound ==
  (last.op \in {"join_with", "widen_with"} /\ PositionAssert(last.prev, last.other)) =>
    /\ ~aborted
    /\ Leq(last.prev, This) = "true"
    /\ Leq(last.other, This) = "true"

RECURSIVE Accumulate(_, _)
Accumulate(res, operands) ==
  IF operands = <<>> \/ ~res.ok THEN res
  ELSE Accumulate(JoinWith(res.obj, Head(operands), expensive_assert), Tail(operands))

Permuted(operands, order) == [i \in 1..Len(operands) |-> operands[order[i]]]

(* C8: joining position-compatible values into a bottom accumulator gives,
   in every order, a result that equals the one of every other order. *)
C8_JoinOrderIndependent ==
  (/\ Len(hist) = steps
   /\ \A i, j \in 1..Len(hist) : PositionAssert(hist[i], hist[j])) =>
    /\ ~aborted
    /\ \A order \in Orders(1..Len(hist)) :
         /\ Accumulate(Ok(Bottom), Permuted(hist, order)).ok
         /\ Equals(This, Accumulate(Ok(Bottom), Permuted(hist, order)).obj) = "true"

(* C11: in every state reached without a failed assertion, the recorded
   position_ is null exactly when the object is bottom, and every frame of
   a non-bottom object carries the recorded position_ as call_position. *)
C11_RecordedPositionConsistent ==
  ~aborted =>
    /\ (position_ = Null) <=> IsBottom(This)
    /\ \A f \in frames_ : f.call_position = position_

====
